---- MODULE Spec2Model ----
(***************************************************************************)
(* youtube_dl_gui/dlthread.py: the DownloadManager thread, its pool of     *)
(* Worker threads and the thread that calls the Manager's public methods   *)
(* (stop_downloads, add_url).  Every thread is a program counter; one      *)
(* action is one read or write of shared memory (CPython switches threads  *)
(* between bytecodes, never inside one).  time.sleep changes no state and  *)
(* is folded into the step that follows it.                                *)
(***************************************************************************)
EXTENDS Integers, Sequences, FiniteSets, TLC

\* ---- program constants ----
WORKERS_NUMBER == 3
None == 0
NoIndex == -1

\* ---- bounds of the model ----
MaxInit == 2
MaxAdd == 1
MaxStops == 2

Workers == 1..WORKERS_NUMBER
MaxItems == MaxInit + MaxAdd
ItemIds == 1..MaxItems

\* an item of urls_list: {'url': ..., 'index': ...}; item k sits in row k-1
Item(k) == [url |-> k, index |-> k - 1]
\* the Manager holds no popped item
NoItem == [url |-> None, index |-> NoIndex]

\* an optional string of the data dictionary the downloader hands to the hook:
\* None, or the text as a sequence of pieces
NoneStr == [none |-> TRUE, str |-> <<>>]
Str(t) == [none |-> FALSE, str |-> t]
\* the data dictionaries the hook is called with
HookData ==
    [status : {NoneStr, Str(<<"Downloading">>)},
     playlist_index : {NoneStr, Str(<<"1">>)},
     playlist_size : {NoneStr, Str(<<"3">>)}]
\* no progress event handled yet
NoEvent ==
    [worker |-> 0, url |-> None, index |-> NoIndex, raised |-> FALSE,
     status |-> NoneStr,
     input |-> [status |-> NoneStr, playlist_index |-> NoneStr,
                playlist_size |-> NoneStr]]

\* YoutubeDLDownloader return codes
OK == "OK"
ALREADY == "ALREADY"
RetCodes == {OK, ALREADY, "ERROR", "STOPPED"}

VARIABLES
    \* DownloadManager
    urls_list, running, successful,
    mpc, mi, mitem,
    \* Worker
    w_running, w_url, w_index, wpc, wtmp,
    \* YoutubeDLDownloader of each Worker
    dl_url, dl_stop,
    \* the thread calling the public methods
    cpc, ci,
    \* history
    initSize, added, addedLive, dispatched, execCount, returned, okCount,
    signals, stopCalls, exitCause,
    \* the Workers whose download in progress was already in progress when
    \* stop_downloads was called
    flightAtStop,
    \* DownloadManager.active: its counter, and the queue length when called
    acount, alen0,
    \* the last progress event a Worker's _data_hook handled
    event

mvars == <<urls_list, running, successful, mpc, mi, mitem>>
wvars == <<w_running, w_url, w_index, wpc, wtmp>>
dvars == <<dl_url, dl_stop>>
cvars == <<cpc, ci>>
hvars == <<initSize, added, addedLive, dispatched, execCount, returned,
           okCount, signals, stopCalls, exitCause>>
xvars == <<flightAtStop, acount, alen0, event>>
vars == <<mvars, wvars, dvars, cvars, hvars, xvars>>

Terminal == {"closed", "finished"}
Count(seq, S) == Cardinality({i \in 1..Len(seq) : seq[i] \in S})
Terminals == SelectSeq(signals, LAMBDA s : s \in Terminal)

\* ---- DownloadManager.__init__ / Worker.__init__ ----
Init ==
    /\ initSize \in 0..MaxInit
    /\ urls_list = [k \in 1..initSize |-> Item(k)]
    /\ running = TRUE
    /\ successful = 0
    /\ mpc = "check" /\ mi = 1 /\ mitem = NoItem
    /\ w_running = [w \in Workers |-> TRUE]
    /\ w_url = [w \in Workers |-> None]
    /\ w_index = [w \in Workers |-> NoIndex]
    /\ wpc = [w \in Workers |-> "while"]
    /\ wtmp = [w \in Workers |-> 0]
    /\ dl_url = [w \in Workers |-> None]
    /\ dl_stop = [w \in Workers |-> FALSE]
    /\ cpc = "idle" /\ ci = 1
    /\ added = <<>> /\ addedLive = {}
    /\ dispatched = <<>>
    /\ execCount = [k \in ItemIds |-> 0]
    /\ returned = {} /\ okCount = 0
    /\ signals = <<>>
    /\ stopCalls = 0
    /\ exitCause = "none"
    /\ flightAtStop = {}
    /\ acount = 0 /\ alen0 = 0
    /\ event = NoEvent

\* ---- helpers translated from the methods ----

\* available() that never reports a busy Worker
available_always(w) == TRUE

\* Worker.available: self._url is None
available(w) == w_url[w] = None

\* _jobs_done that returns True as soon as one Worker is idle
jobs_done_any == \E w \in Workers : available(w)

\* DownloadManager._jobs_done: no Worker is busy
jobs_done == \A w \in Workers : available(w)

\* pop() without the index: the last element
pop_pos_last(list) == Len(list)

\* the position urls_list.pop(0) removes (1-based here)
pop_pos(list) == 1

\* list.append of add_url
add_url_list(list, item) == Append(list, item)

RemoveAt(list, p) == [i \in 1..(Len(list) - 1) |-> IF i < p THEN list[i] ELSE list[i + 1]]

\* a clean up that does not wait for the Worker
joined_nowait(w) == TRUE

\* Thread.join returns once the Worker's run() has returned
joined(w) == wpc[w] = "exited"

\* the test of self._running inverted
terminal_signal_inverted == IF running THEN "closed" ELSE "finished"

\* the signal chosen after the clean up: 'closed' if not self._running
terminal_signal == IF ~running THEN "closed" ELSE "finished"

\* stop_downloads that leaves self._running set
stop_flag_value_kept == TRUE

\* the value stop_downloads stores in self._running
stop_flag_value == FALSE

\* YoutubeDLDownloader.stop: cancels the download in progress, if any
downloader_stop(w) == [dl_stop EXCEPT ![w] = (dl_url[w] # None)]

\* stop_download that forgets to call the downloader
stop_download_skipped(w) == dl_stop

\* Worker.stop_download: self._downloader.stop()
stop_download(w) == downloader_stop(w)

\* a Worker thread that dies on a failed download
after_download_dies(code) ==
    IF code = OK \/ code = ALREADY THEN "succ_load" ELSE "exited"

\* Worker.run after the download returned: increase_succ() for OK and
\* ALREADY, then the reset, whatever the code
after_download(code) ==
    IF code = OK \/ code = ALREADY THEN "succ_load" ELSE "reset"

\* the value Worker.run's guard reads: while self._running
worker_loop_guard(w) == w_running[w]

\* the sum active() returns, with the queue length added once for each Worker
active_total_in_loop(counter, list) == counter + WORKERS_NUMBER * Len(list)

\* DownloadManager.active: counter += len(self.urls_list)
active_total(counter, list) == counter + Len(list)

\* Worker._data_hook: playlist_info += data['playlist_size'] is a TypeError
\* when the size is None (str + None)
data_hook_raises(data) ==
    /\ ~data.status.none /\ ~data.playlist_index.none
    /\ data.playlist_size.none

\* Worker._data_hook: the status it hands to _talk_to_gui
data_hook_status(data) ==
    IF ~data.status.none /\ ~data.playlist_index.none
      THEN Str(data.status.str \o <<" ">> \o data.playlist_index.str
                 \o <<"/">> \o data.playlist_size.str)
      ELSE data.status

\* ---- DownloadManager.run ----

\* self._check_youtubedl(): os.path.exists finds the binary, or it does not
\* and the UpdateThread is started
run_check ==
    /\ mpc = "check"
    /\ \E exists \in BOOLEAN :
         mpc' = IF exists THEN "while" ELSE "update"
    /\ UNCHANGED <<urls_list, running, successful, mi, mitem, wvars, dvars, cvars,
                   hvars>>
    /\ UNCHANGED xvars

\* a check that is repeated after the updater ran
run_update_rechecks ==
    /\ mpc = "update"
    /\ mpc' = "check"
    /\ UNCHANGED <<urls_list, running, successful, mi, mitem, wvars, dvars,
                   cvars, hvars>>
    /\ UNCHANGED xvars

\* UpdateThread(...).join() returns
run_update ==
    /\ mpc = "update"
    /\ mpc' = "while"
    /\ UNCHANGED <<urls_list, running, successful, mi, mitem, wvars, dvars,
                   cvars, hvars>>
    /\ UNCHANGED xvars

\* while self._running:
run_while ==
    /\ mpc = "while"
    /\ IF running
         THEN mpc' = "for" /\ UNCHANGED exitCause
         ELSE mpc' = "close" /\ exitCause' = "stopped"
    /\ mi' = 1
    /\ UNCHANGED <<urls_list, running, successful, mitem, wvars, dvars, cvars,
                   initSize, added, addedLive, dispatched, execCount,
                   returned, okCount, signals, stopCalls>>
    /\ UNCHANGED xvars

\* the for loop moves to the next Worker, or ends (and the Manager sleeps)
NextWorker ==
    IF mi < WORKERS_NUMBER
      THEN mpc' = "for" /\ mi' = mi + 1
      ELSE mpc' = "brk" /\ mi' = 1

\* if worker.available() and self.urls_list:
run_for ==
    /\ mpc = "for"
    /\ IF available(mi) /\ urls_list # <<>>
         THEN mpc' = "pop" /\ UNCHANGED mi
         ELSE NextWorker
    /\ UNCHANGED <<urls_list, running, successful, mitem, wvars, dvars, cvars,
                   hvars>>
    /\ UNCHANGED xvars

\* self.urls_list.pop(0), the argument of worker.download
run_pop ==
    /\ mpc = "pop"
    /\ mitem' = urls_list[pop_pos(urls_list)]
    /\ urls_list' = RemoveAt(urls_list, pop_pos(urls_list))
    /\ dispatched' = Append(dispatched, mitem'.url)
    /\ mpc' = "dl_url"
    /\ UNCHANGED <<running, successful, mi, wvars, dvars, cvars,
                   initSize, added, addedLive, execCount, returned, okCount,
                   signals, stopCalls, exitCause>>
    /\ UNCHANGED xvars

\* Worker.download: self._url = item['url']
run_download_url ==
    /\ mpc = "dl_url"
    /\ w_url' = [w_url EXCEPT ![mi] = mitem.url]
    /\ mpc' = "dl_index"
    /\ UNCHANGED <<urls_list, running, successful, mi, mitem, w_running, w_index,
                   wpc, wtmp, dvars, cvars, hvars>>
    /\ UNCHANGED xvars

\* Worker.download: self._index = item['index']
run_download_index ==
    /\ mpc = "dl_index"
    /\ w_index' = [w_index EXCEPT ![mi] = mitem.index]
    /\ mitem' = NoItem
    /\ NextWorker
    /\ UNCHANGED <<urls_list, running, successful, w_running, w_url, wpc, wtmp,
                   dvars, cvars, hvars>>
    /\ UNCHANGED xvars

\* time.sleep(WAIT_TIME); if not self.urls_list ...
run_break_list ==
    /\ mpc = "brk"
    /\ mpc' = IF urls_list = <<>> THEN "jobs" ELSE "while"
    /\ UNCHANGED <<urls_list, running, successful, mi, mitem, wvars, dvars,
                   cvars, hvars>>
    /\ UNCHANGED xvars

\* a break that also clears self._running
run_break_jobs_clears ==
    /\ mpc = "jobs"
    /\ IF jobs_done
         THEN mpc' = "close" /\ exitCause' = "natural" /\ running' = FALSE
         ELSE mpc' = "while" /\ UNCHANGED <<exitCause, running>>
    /\ UNCHANGED <<urls_list, successful, mi, mitem, wvars, dvars,
                   cvars, initSize, added, addedLive, dispatched, execCount,
                   returned, okCount, signals, stopCalls>>
    /\ UNCHANGED xvars

\* ... and self._jobs_done(): break
run_break_jobs ==
    /\ mpc = "jobs"
    /\ IF jobs_done
         THEN mpc' = "close" /\ exitCause' = "natural"
         ELSE mpc' = "while" /\ UNCHANGED exitCause
    /\ UNCHANGED <<urls_list, running, successful, mi, mitem, wvars, dvars,
                   cvars, initSize, added, addedLive, dispatched, execCount,
                   returned, okCount, signals, stopCalls>>
    /\ UNCHANGED xvars

\* clean up: worker.close() sets self._running = False and stops the downloader
run_close ==
    /\ mpc = "close"
    /\ w_running' = [w_running EXCEPT ![mi] = FALSE]
    /\ dl_stop' = downloader_stop(mi)
    /\ mpc' = "join"
    /\ UNCHANGED <<urls_list, running, successful, mi, mitem, w_url, w_index, wpc,
                   wtmp, dl_url, cvars, hvars>>
    /\ UNCHANGED xvars

\* clean up: worker.join()
run_join ==
    /\ mpc = "join"
    /\ joined(mi)
    /\ IF mi < WORKERS_NUMBER
         THEN mpc' = "close" /\ mi' = mi + 1
         ELSE mpc' = "signal" /\ mi' = 1
    /\ UNCHANGED <<urls_list, running, successful, mitem, wvars, dvars, cvars,
                   hvars>>
    /\ UNCHANGED xvars

\* if not self._running: 'closed' else: 'finished'
run_signal ==
    /\ mpc = "signal"
    /\ signals' = Append(signals, terminal_signal)
    /\ mpc' = "done"
    /\ UNCHANGED <<urls_list, running, successful, mi, mitem, wvars, dvars,
                   cvars, initSize, added, addedLive, dispatched, execCount,
                   returned, okCount, stopCalls, exitCause>>
    /\ UNCHANGED xvars

Manager ==
    \/ run_check \/ run_update \/ run_while \/ run_for \/ run_pop
    \/ run_download_url \/ run_download_index \/ run_break_list
    \/ run_break_jobs \/ run_close \/ run_join \/ run_signal

\* ---- Worker.run ----

\* while self._running:
Worker_while(w) ==
    /\ wpc[w] = "while"
    /\ wpc' = [wpc EXCEPT ![w] = IF worker_loop_guard(w) THEN "check" ELSE "exited"]
    /\ UNCHANGED <<mvars, w_running, w_url, w_index, wtmp, dvars, cvars, hvars>>
    /\ UNCHANGED xvars

\* if self._url is not None: self._downloader.download(self._url, options)
\* else: time.sleep(WAIT_TIME)
Worker_check(w) ==
    /\ wpc[w] = "check"
    /\ IF w_url[w] # None
         THEN /\ dl_url' = [dl_url EXCEPT ![w] = w_url[w]]
              /\ execCount' = [execCount EXCEPT ![w_url[w]] = @ + 1]
              /\ wpc' = [wpc EXCEPT ![w] = "download"]
         ELSE /\ wpc' = [wpc EXCEPT ![w] = "while"]
              /\ UNCHANGED <<dl_url, execCount>>
    /\ UNCHANGED <<mvars, w_running, w_url, w_index, wtmp, dl_stop, cvars,
                   initSize, added, addedLive, dispatched, returned,
                   okCount, signals, stopCalls, exitCause>>
    /\ UNCHANGED xvars

\* download returns ret_code; OK and ALREADY lead to self.increase_succ()
Worker_return(w) ==
    /\ wpc[w] = "download"
    /\ \E code \in RetCodes :
         /\ wpc' = [wpc EXCEPT ![w] = after_download(code)]
         /\ okCount' = IF code \in {OK, ALREADY} THEN okCount + 1 ELSE okCount
    /\ returned' = returned \cup {dl_url[w]}
    /\ dl_url' = [dl_url EXCEPT ![w] = None]
    /\ dl_stop' = [dl_stop EXCEPT ![w] = FALSE]
    /\ UNCHANGED <<mvars, w_running, w_url, w_index, wtmp, cvars,
                   initSize, added, addedLive, dispatched, execCount, signals,
                   stopCalls, exitCause>>
    /\ flightAtStop' = flightAtStop \ {w}
    /\ UNCHANGED <<acount, alen0, event>>

\* increase_succ, self._successful += 1: the load of self._successful
Worker_succ_load(w) ==
    /\ wpc[w] = "succ_load"
    /\ wtmp' = [wtmp EXCEPT ![w] = successful]
    /\ wpc' = [wpc EXCEPT ![w] = "succ_store"]
    /\ UNCHANGED <<mvars, w_running, w_url, w_index, dvars, cvars,
                   hvars>>
    /\ UNCHANGED xvars

\* increase_succ, self._successful += 1: the store of the sum
Worker_succ_store(w) ==
    /\ wpc[w] = "succ_store"
    /\ successful' = wtmp[w] + 1
    /\ wtmp' = [wtmp EXCEPT ![w] = 0]
    /\ wpc' = [wpc EXCEPT ![w] = "reset"]
    /\ UNCHANGED <<urls_list, running, mpc, mi, mitem, w_running, w_url, w_index,
                   dvars, cvars, hvars>>
    /\ UNCHANGED xvars

\* self._url = None; time.sleep(WAIT_TIME)
Worker_reset(w) ==
    /\ wpc[w] = "reset"
    /\ w_url' = [w_url EXCEPT ![w] = None]
    /\ wpc' = [wpc EXCEPT ![w] = "while"]
    /\ UNCHANGED <<mvars, w_running, w_index, wtmp, dvars, cvars,
                   hvars>>
    /\ UNCHANGED xvars

WorkerStep(w) ==
    \/ Worker_while(w) \/ Worker_check(w) \/ Worker_return(w)
    \/ Worker_succ_load(w) \/ Worker_succ_store(w) \/ Worker_reset(w)

\* ---- the public methods, called from the GUI thread ----

\* stop_downloads: self._talk_to_gui('closing')
stop_downloads_closing ==
    /\ cpc = "idle"
    /\ stopCalls < MaxStops
    /\ stopCalls' = stopCalls + 1
    /\ signals' = Append(signals, "closing")
    /\ cpc' = "stop_flag"
    /\ UNCHANGED <<mvars, wvars, dvars, ci, initSize, added, addedLive,
                   dispatched, execCount, returned, okCount, exitCause>>
    /\ flightAtStop' = flightAtStop \cup {w \in Workers : dl_url[w] # None}
    /\ UNCHANGED <<acount, alen0, event>>

\* stop_downloads: self._running = False
stop_downloads_flag ==
    /\ cpc = "stop_flag"
    /\ running' = stop_flag_value
    /\ cpc' = "stop_workers" /\ ci' = 1
    /\ UNCHANGED <<urls_list, successful, mpc, mi, mitem, wvars, dvars, hvars>>
    /\ UNCHANGED xvars

\* stop_download that ends the Worker's loop as close() does
stop_downloads_worker_closes ==
    /\ cpc = "stop_workers"
    /\ dl_stop' = stop_download(ci)
    /\ IF ci < WORKERS_NUMBER
         THEN ci' = ci + 1 /\ UNCHANGED cpc
         ELSE ci' = 1 /\ cpc' = "idle"
    /\ w_running' = [w_running EXCEPT ![ci] = FALSE]
    /\ UNCHANGED <<mvars, w_url, w_index, wpc, wtmp, dl_url, hvars>>
    /\ UNCHANGED xvars

\* stop_downloads: worker.stop_download() for the next Worker
stop_downloads_worker ==
    /\ cpc = "stop_workers"
    /\ dl_stop' = stop_download(ci)
    /\ IF ci < WORKERS_NUMBER
         THEN ci' = ci + 1 /\ UNCHANGED cpc
         ELSE ci' = 1 /\ cpc' = "idle"
    /\ UNCHANGED <<mvars, wvars, dl_url, hvars>>
    /\ UNCHANGED xvars

\* add_url: self.urls_list.append(url)
add_url ==
    /\ cpc = "idle"
    /\ Len(added) < MaxAdd
    /\ LET k == initSize + Len(added) + 1 IN
         /\ urls_list' = add_url_list(urls_list, Item(k))
         /\ added' = Append(added, k)
         /\ addedLive' = IF stopCalls = 0 /\ Terminals = <<>>
                           THEN addedLive \cup {k} ELSE addedLive
    /\ UNCHANGED <<running, successful, mpc, mi, mitem, wvars, dvars, cvars,
                   initSize, dispatched, execCount, returned, okCount,
                   signals, stopCalls, exitCause>>
    /\ UNCHANGED xvars

\* active: counter = 0
active_begin ==
    /\ cpc = "idle"
    /\ cpc' = "active_workers" /\ ci' = 1
    /\ acount' = 0
    /\ alen0' = Len(urls_list)
    /\ UNCHANGED <<mvars, wvars, dvars, hvars, flightAtStop, event>>

\* active: if not worker.available(): counter += 1, for the next Worker
active_worker ==
    /\ cpc = "active_workers"
    /\ acount' = IF ~available(ci) THEN acount + 1 ELSE acount
    /\ IF ci < WORKERS_NUMBER
         THEN ci' = ci + 1 /\ UNCHANGED cpc
         ELSE ci' = 1 /\ cpc' = "active_len"
    /\ UNCHANGED <<mvars, wvars, dvars, hvars, flightAtStop, alen0, event>>

\* active: counter += len(self.urls_list)
active_len ==
    /\ cpc = "active_len"
    /\ acount' = active_total(acount, urls_list)
    /\ cpc' = "active_return"
    /\ UNCHANGED <<mvars, wvars, dvars, ci, hvars, flightAtStop, alen0, event>>

\* active: return counter
active_return ==
    /\ cpc = "active_return"
    /\ cpc' = "idle"
    /\ acount' = 0 /\ alen0' = 0
    /\ UNCHANGED <<mvars, wvars, dvars, ci, hvars, flightAtStop, event>>

active == active_begin \/ active_worker \/ active_len \/ active_return

\* the downloader calls Worker._data_hook during a download; _talk_to_gui
\* inserts self._index and forwards the data
Worker_hook(w) ==
    /\ wpc[w] = "download"
    /\ \E data \in HookData :
         event' = IF data_hook_raises(data)
                    THEN [worker |-> w, url |-> dl_url[w], index |-> NoIndex,
                          raised |-> TRUE, status |-> data.status,
                          input |-> data]
                    ELSE [worker |-> w, url |-> dl_url[w], index |-> w_index[w],
                          raised |-> FALSE, status |-> data_hook_status(data),
                          input |-> data]
    /\ UNCHANGED <<mvars, wvars, dvars, cvars, hvars, flightAtStop, acount, alen0>>

Caller ==
    \/ stop_downloads_closing \/ stop_downloads_flag \/ stop_downloads_worker
    \/ add_url

Next ==
    \/ Manager
    \/ \E w \in Workers : WorkerStep(w)
    \/ Caller

Spec == Init /\ [][Next]_vars

TypeOK ==
    /\ mpc \in {"check", "update", "while", "for", "pop", "dl_url", "dl_index",
                "brk", "jobs", "close", "join", "signal", "done"}
    /\ \A w \in Workers : wpc[w] \in {"while", "check", "download", "succ_load",
                                      "succ_store", "reset", "exited"}
    /\ cpc \in {"idle", "stop_flag", "stop_workers", "active_workers",
                "active_len", "active_return"}

\* the Manager and the Workers alone: nobody calls stop_downloads or add_url,
\* every thread keeps being scheduled, every download and the updater return
NextLive ==
    \/ Manager
    \/ \E w \in Workers : WorkerStep(w)

LiveSpec ==
    /\ Init
    /\ [][NextLive]_vars
    /\ WF_vars(Manager)
    /\ \A w \in Workers : WF_vars(WorkerStep(w))

\* the Manager, the Workers and a GUI thread that calls active() and add_url
NextActive ==
    \/ Manager
    \/ \E w \in Workers : WorkerStep(w)
    \/ add_url
    \/ active

ActiveSpec == Init /\ [][NextActive]_vars

\* the Manager, the Workers and the progress callbacks of their downloaders
NextHook ==
    \/ Manager
    \/ \E w \in Workers : WorkerStep(w)
    \/ \E w \in Workers : Worker_hook(w)

HookSpec == Init /\ [][NextHook]_vars

\* the Manager, the Workers and a GUI thread that only adds urls; every
\* thread keeps being scheduled, every download and the updater return
NextFair ==
    \/ Manager
    \/ \E w \in Workers : WorkerStep(w)
    \/ add_url

FairSpec ==
    /\ Init
    /\ [][NextFair]_vars
    /\ WF_vars(Manager)
    /\ \A w \in Workers : WF_vars(WorkerStep(w))

\* ---- properties ----

Dispatched == {dispatched[i] : i \in 1..Len(dispatched)}
Holders(k) == {w \in Workers : w_url[w] = k}
Closings == Count(signals, {"closing"})
ClosingsBefore(i) == Count(SubSeq(signals, 1, i - 1), {"closing"})
\* the items in the order they entered the queue
Arrivals == [i \in 1..(initSize + Len(added)) |-> i]

\* C1: at most WORKERS_NUMBER dispatched items are outstanding; each of them
\* is in the Manager's hand on its way to an idle Worker or is held by exactly
\* one Worker; Worker.download is only ever called on a Worker whose _url is None.
C1_BoundedAssignment ==
    /\ Cardinality(Dispatched \ returned) <= WORKERS_NUMBER
    /\ \A k \in Dispatched \ returned :
         \/ mitem.url = k /\ mpc = "dl_url" /\ Holders(k) = {}
         \/ Cardinality(Holders(k)) = 1
    /\ (mpc = "dl_url" => w_url[mi] = None)
    /\ Len(dispatched) = Cardinality(Dispatched)

C1_Witness ==
    /\ \A w \in Workers : w_url[w] # None /\ w_url[w] \notin returned
    /\ Cardinality({w_url[w] : w \in Workers}) = WORKERS_NUMBER

\* C2: the sequence of popped items is a prefix of the initial batch followed
\* by the items add_url appended, in that order.
C2_Fifo ==
    /\ Len(dispatched) <= Len(Arrivals)
    /\ \A i \in 1..Len(dispatched) : dispatched[i] = Arrivals[i]

C2_Witness ==
    /\ Len(dispatched) = MaxItems
    /\ added # <<>>
    /\ initSize = MaxInit

\* C3 as stated: two stop_downloads calls give one 'closing' and one terminal
\* signal, 'closed'.
C3_Original ==
    (stopCalls = 2 /\ cpc = "idle" /\ mpc = "done") =>
        (Closings = 1 /\ Terminals = <<"closed">>)

\* C3 amended: every stop_downloads call emits its own 'closing'; at most one
\* terminal signal is ever emitted, exactly one once run() is over; a terminal
\* signal that follows two 'closing' signals is 'closed', and 'closed' never
\* comes without a 'closing' before it.
C3_StopTwice ==
    /\ Closings = stopCalls
    /\ Len(Terminals) <= 1
    /\ (mpc = "done" => Len(Terminals) = 1)
    /\ \A i \in 1..Len(signals) :
         /\ (ClosingsBefore(i) >= 2 /\ signals[i] \in Terminal => signals[i] = "closed")
         /\ (signals[i] = "closed" => ClosingsBefore(i) >= 1)

C3_Witness ==
    /\ signals = <<"closing", "closing", "closed">>
    /\ cpc = "idle"

\* C4 as stated: an exit by natural completion gives 'finished', and 'closed'
\* comes only from a loop that exited on the stop request.
C4_Original ==
    mpc = "done" =>
        /\ (exitCause = "natural" => Terminals = <<"finished">>)
        /\ (Terminals = <<"closed">> => exitCause = "stopped")

\* C4 amended: 'finished' is emitted only after an exit by natural completion,
\* a loop that exited on the stop request always gives 'closed', and 'closed'
\* is emitted only when stop_downloads has cleared the flag; a natural exit
\* followed by stop_downloads before the final test gives 'closed' too.
C4_TerminalCause ==
    mpc = "done" =>
        /\ (Terminals = <<"finished">> => exitCause = "natural")
        /\ (exitCause = "stopped" => Terminals = <<"closed">>)
        /\ (Terminals = <<"closed">> => stopCalls >= 1 /\ ~running)

C4_Witness ==
    /\ mpc = "done"
    /\ exitCause = "natural"
    /\ Terminals = <<"closed">>

\* C5: once the Manager's running flag is false no item is popped any more.
C5_NoDispatchAfterStop == [][~running => dispatched' = dispatched]_vars

\* C6: with no stop_downloads call at all, every item added before the
\* terminal signal has been handed to a Worker and executed once when the
\* Manager is over.
C6_AddedReachesWorker ==
    (mpc = "done" /\ stopCalls = 0) =>
        \A k \in addedLive : k \in Dispatched /\ execCount[k] = 1

\* C7: when the Manager is over, every popped item has been executed exactly
\* once and cleared by its Worker.
C7_NoDropNoDup ==
    mpc = "done" =>
        \A k \in Dispatched :
            execCount[k] = 1 /\ k \in returned /\ Holders(k) = {}

\* C8: a terminal signal is emitted only when every Worker has been closed and
\* its loop has exited, and there is exactly one per Manager lifetime.
C8_NoTerminalWhileAlive ==
    /\ (Terminals # <<>> =>
          \A w \in Workers : wpc[w] = "exited" /\ ~w_running[w])
    /\ Len(Terminals) <= 1
    /\ (mpc = "done" <=> Len(Terminals) = 1)

C8_Witness ==
    /\ Terminals # <<>>
    /\ returned # {}
    /\ \E w \in Workers : w_url[w] # None

\* C9: when the pool has terminated, successful is the number of executed
\* items whose return code was OK or ALREADY.
C9_SuccessCount == mpc = "done" => successful = okCount

\* C10: with nobody calling stop_downloads or add_url and fair scheduling,
\* the whole initial batch is dispatched and executed once, nothing else is,
\* and the only signal ever emitted is one 'finished'.
C10_NaturalCompletion ==
    <>[](/\ mpc = "done"
         /\ signals = <<"finished">>
         /\ dispatched = [i \in 1..initSize |-> i]
         /\ returned = 1..initSize
         /\ \A k \in 1..initSize : execCount[k] = 1)

C10_Witness ==
    /\ mpc = "done"
    /\ signals = <<"finished">>
    /\ initSize = MaxInit
    /\ returned = 1..initSize

\* the stop_downloads call in progress, or the last one, has called
\* stop_download() on Worker w
StopPassed(w) ==
    \/ cpc = "stop_workers" /\ w < ci
    \/ cpc \notin {"stop_flag", "stop_workers"} /\ stopCalls >= 1
\* the dispatch loop of run() is over
LoopExited == mpc \in {"close", "join", "signal", "done"}

\* C11 as stated: when the clean up has joined a Worker, a stop was issued
\* for every download that was in flight when stop_downloads was called.
C11_Original ==
    [][(mpc = "join" /\ mpc' # "join") =>
          \A w \in flightAtStop : dl_stop[w]]_vars

\* C11 amended: a download that was in flight when stop_downloads was called
\* and is still running has had a stop issued once stop_downloads has gone past
\* its Worker, and the clean up's close() of its Worker issues one too; the
\* clean up may have joined other Workers before that.
C11_CancelPropagates ==
    /\ [](\A w \in flightAtStop : StopPassed(w) => dl_stop[w])
    /\ [][\A w \in flightAtStop :
            (mpc = "close" /\ mi = w /\ mpc' # "close") => dl_stop'[w]]_vars

C11_Witness ==
    /\ Cardinality(flightAtStop) >= 2
    /\ \A w \in flightAtStop : dl_stop[w]
    /\ cpc = "idle"
    /\ mpc = "join"

\* C12: the value active() returns is at most WORKERS_NUMBER plus the length
\* the queue had when active() was called, and at least the length the queue
\* has when it returns.
C12_ActiveBound ==
    cpc = "active_return" =>
        /\ acount <= WORKERS_NUMBER + alen0
        /\ acount >= Len(urls_list)

C12_Witness ==
    /\ cpc = "active_return"
    /\ alen0 > Len(urls_list)
    /\ urls_list # <<>>
    /\ acount = MaxItems

\* C13: successful never decreases and never exceeds the number of downloads
\* that returned.
C13_Monotone ==
    /\ [][successful' >= successful]_vars
    /\ [](successful <= Cardinality(returned))

\* C14: whatever code a download returns, the Worker clears its item; and an
\* idle Worker is given an item while the queue stays non-empty and the
\* dispatch loop has not exited.
C14_FailureFreesWorker ==
    \A w \in Workers :
        /\ (wpc[w] = "download") ~> (w_url[w] = None)
        /\ (available(w) /\ urls_list # <<>>)
              ~> (w_url[w] # None \/ urls_list = <<>> \/ LoopExited)

C14_Witness ==
    /\ okCount = 0
    /\ returned # {}
    /\ \E w \in Workers :
         /\ w_url[w] # None
         /\ w_index[w] # NoIndex
         /\ w_index[w] # Item(w_url[w]).index

\* C15: stop_download changes nothing of the Worker; a Worker's running flag
\* is cleared only by close() in the clean up and never set again; a Worker
\* whose flag is set has not left its loop, and a download that returns,
\* cancelled or not, takes the Worker on to the reset of its item.
C15_StopDownloadFrame ==
    /\ [](\A w \in Workers : wpc[w] = "exited" => ~w_running[w])
    /\ [][\A w \in Workers :
            /\ (w_running[w] /\ ~w_running'[w]) => (mpc = "close" /\ mi = w)
            /\ ~w_running[w] => ~w_running'[w]]_vars
    /\ [][(cpc = "stop_workers" /\ ci' # ci) =>
            UNCHANGED <<w_running, w_url, w_index, wpc>>]_vars
    /\ [][\A w \in Workers :
            (wpc[w] = "download" /\ wpc'[w] # "download") =>
                wpc'[w] \in {"succ_load", "reset"}]_vars

C15_Witness ==
    /\ cpc = "idle"
    /\ stopCalls >= 1
    /\ \E w \in Workers :
         dl_stop[w] /\ w_running[w] /\ wpc[w] = "download"

\* C16 as stated: the running flag is false once the terminal signal is out.
C16_Original == mpc = "done" => ~running

\* C16 amended: the running flag goes to false at most once, only by
\* stop_downloads, and is never set again; without a stop_downloads call it
\* stays true, through natural completion and the terminal signal.
C16_RunningFlag ==
    /\ [][~running => ~running']_vars
    /\ [][(running /\ ~running') => cpc = "stop_flag"]_vars
    /\ [](stopCalls = 0 => running)
    /\ []((stopCalls >= 1 /\ cpc # "stop_flag") => ~running)

C16_Witness ==
    /\ mpc = "done"
    /\ running
    /\ signals = <<"finished">>
    /\ returned # {}

\* C17: a forwarded event carries the row index of the item being downloaded.
C17_EventIndex ==
    (event # NoEvent /\ ~event.raised) =>
        event.index = Item(event.url).index

\* the status the hook is to forward: " index/size" appended when both the
\* playlist position and the playlist size are there
ExpectedStatus(data) ==
    IF ~data.playlist_index.none /\ ~data.playlist_size.none
      THEN Str(data.status.str \o <<" ">> \o data.playlist_index.str
                 \o <<"/">> \o data.playlist_size.str)
      ELSE data.status

\* C18: for every data dictionary the hook completes and forwards the event,
\* and a status that is there gets the fragment exactly when position and size
\* are both there.
C18_HookStatus ==
    event # NoEvent =>
        /\ ~event.raised
        /\ (~event.input.status.none =>
              event.status = ExpectedStatus(event.input))

\* C19: while the check or the updater runs nothing has been popped or
\* assigned; the check is never entered again and the updater is started only
\* from the check, so both run at most once.
C19_CheckOnce ==
    /\ [](mpc \in {"check", "update"} =>
            /\ dispatched = <<>> /\ mitem = NoItem
            /\ \A w \in Workers : w_url[w] = None)
    /\ [][mpc # "check" => mpc' # "check"]_vars
    /\ [][(mpc' = "update" /\ mpc # "update") => mpc = "check"]_vars

C19_Witness ==
    /\ mpc = "update"
    /\ Len(urls_list) = MaxItems

\* some submitted item has not finished executing
Outstanding ==
    \/ urls_list # <<>>
    \/ mpc \in {"dl_url", "dl_index"}
    \/ \E w \in Workers :
         w_url[w] # None /\ wpc[w] \in {"while", "check", "download"}

\* C20: active() returns at least 1 when an item is outstanding and the clean
\* up has not begun.
C20_ActiveNeverZero ==
    (cpc = "active_return" /\ Outstanding /\ ~LoopExited) => acount >= 1

====
